---- MODULE Spec2Model ----
(***************************************************************************)
(* Hotel backend: the persistence interface (hotel/db/db_interface.py) and *)
(* the operations built on it (hotel/operations/*.py), with the in-memory   *)
(* test doubles of the interface (hotel/tests/stubs/*.py).                  *)
(*                                                                         *)
(* A table is a function from primary keys to rows; a row is a record with *)
(* an id field and the entity's columns.  Dates are day numbers, so that   *)
(* (to_date - from_date).days is integer subtraction.  A Python Optional   *)
(* value in a payload is a sequence of length at most one.                 *)
(***************************************************************************)
EXTENDS Integers, Sequences, FiniteSets, TLC

VARIABLES
    db,             \* the three tables: db.room, db.customer, db.booking
    nextId,         \* per table, the next primary key the backend assigns
    last,           \* the last call made, its arguments and its outcome
    roomPriceRead,  \* per booking made by create_booking, the room price it read
    deleted,        \* per table, ids whose delete succeeded and that no row holds
    stub,           \* the record lists of the test doubles (hotel/tests/stubs)
    assigned,       \* per store, the ids its create calls have returned
    inflight,       \* per caller, the create_booking call it is in the middle of
    trace           \* the store calls made by the create_booking calls in flight

vars == <<db, nextId, last, roomPriceRead, deleted, stub, assigned, inflight, trace>>

----------------------------------------------------------------------------
(* Bounds of the model. *)

MaxRooms == 1
MaxCustomers == 2
MaxBookings == 2
MaxKeys == 2

MaxId(k) == CASE k = "room" -> MaxRooms
              [] k = "customer" -> MaxCustomers
              [] k = "booking" -> MaxBookings

Ids(k) == 1 .. MaxId(k)
----------------------------------------------------------------------------
(* Values. *)

Kinds == {"room", "customer", "booking"}

NULL == "NULL"
None == <<>>
Some(v) == <<v>>

EmptyTable == [i \in {} |-> i]

Ok(v) == [kind |-> "ok", val |-> v]
ReturnedNone == [kind |-> "none"]
Raise(e) == [kind |-> "raise", err |-> e]

Max(a, b) == IF a >= b THEN a ELSE b

----------------------------------------------------------------------------
(* hotel/db/models.py: to_dict and the primary-key policy. *)

NextIdAfter(nid, table) ==
    IF DOMAIN table = {} THEN nid
    ELSE Max(nid, 1 + (CHOOSE i \in DOMAIN table : \A j \in DOMAIN table : j <= i))

to_dict(found) == IF found = None THEN Raise("NotFound") ELSE Ok(found[1])

----------------------------------------------------------------------------
(* hotel/db/db_interface.py: DBInterface. *)

Get(table, id) == IF id \in DOMAIN table THEN Some(table[id]) ELSE None

Drop(table, id) == [i \in DOMAIN table \ {id} |-> table[i]]

RECURSIVE RowsFrom(_, _)
RowsFrom(table, ids) ==
    IF ids = {} THEN <<>>
    ELSE LET lo == CHOOSE i \in ids : \A j \in ids : i <= j
         IN  <<table[lo]>> \o RowsFrom(table, ids \ {lo})

read_by_id_FirstRowFallback(table, id) ==
    [tbl |-> table,
     res |-> IF id \in DOMAIN table \/ DOMAIN table = {} THEN to_dict(Get(table, id))
             ELSE Ok([table[CHOOSE i \in DOMAIN table : TRUE] EXCEPT !.id = id])]

read_by_id(table, id) == [tbl |-> table, res |-> to_dict(Get(table, id))]

read_all(table) == [tbl |-> table, res |-> Ok(RowsFrom(table, DOMAIN table))]

create_ReturnsUnsaved(table, nid, data) ==
    [tbl |-> table, res |-> Ok([id |-> nid] @@ data)]

create(table, nid, data) ==
    LET row == [id |-> nid] @@ data
    IN  [tbl |-> table @@ (row.id :> row), res |-> Ok(row)]

ToStored(value) == IF value = None THEN NULL ELSE value[1]

SetAttrsNotNone(row, data) ==
    [f \in DOMAIN row |->
        IF f \in DOMAIN data /\ data[f] # None THEN data[f][1] ELSE row[f]]

update_Upserts(table, id, data) ==
    LET row == IF id \in DOMAIN table THEN SetAttrsNotNone(table[id], data)
               ELSE [id |-> id] @@ [f \in DOMAIN data |-> ToStored(data[f])]
    IN  [tbl |-> Drop(table, id) @@ (id :> row), res |-> Ok(row)]

update_SetsEveryRow(table, id, data) ==
    IF Get(table, id) = None
    THEN [tbl |-> table, res |-> ReturnedNone]
    ELSE LET set(row) == [f \in DOMAIN row |->
                            IF f # "id" /\ f \in DOMAIN data /\ data[f] # None
                            THEN data[f][1] ELSE row[f]]
         IN  [tbl |-> [i \in DOMAIN table |-> set(table[i])], res |-> Ok(set(table[id]))]

update(table, id, data) ==
    IF Get(table, id) = None
    THEN [tbl |-> table, res |-> ReturnedNone]
    ELSE LET row == SetAttrsNotNone(table[id], data)
         IN  IF row.id # id /\ row.id \in DOMAIN table
             THEN [tbl |-> table, res |-> Raise("IntegrityError")]
             ELSE [tbl |-> Drop(table, id) @@ (row.id :> row), res |-> Ok(row)]

delete_ClearsTable(table, id) ==
    IF Get(table, id) = None
    THEN [tbl |-> table, res |-> Raise("UnmappedInstanceError")]
    ELSE [tbl |-> EmptyTable, res |-> Ok(table[id])]

delete(table, id) ==
    IF Get(table, id) = None
    THEN [tbl |-> table, res |-> Raise("UnmappedInstanceError")]
    ELSE [tbl |-> Drop(table, id), res |-> Ok(table[id])]

----------------------------------------------------------------------------
(* hotel/operations/rooms.py *)

read_all_rooms(rooms) == read_all(rooms)

read_room_by_id(room_id, rooms) == read_by_id(rooms, room_id)

create_room(data, rooms, nid) == create(rooms, nid, data)

----------------------------------------------------------------------------
(* hotel/operations/bookings.py *)

read_all_bookings(bookings) == read_all(bookings)

read_booking_by_id(booking_id, bookings) == read_by_id(bookings, booking_id)

BookingPriceIgnoresDays(room, days) == room.price

BookingPriceAddsDays(room, days) == room.price + days

BookingPrice(room, days) == room.price * days

create_booking_AcceptsSameDay(data, bookings, nid, rooms) ==
    LET room == read_by_id(rooms, data.room_id).res
        days == data.to_date - data.from_date
    IN  IF room.kind # "ok" THEN [tbl |-> bookings, res |-> room]
        ELSE IF days < 0
        THEN [tbl |-> bookings, res |-> Raise("InvalidDateError")]
        ELSE create(bookings, nid, data @@ [price |-> room.val.price * days])

create_booking_WritesThenChecks(data, bookings, nid, rooms) ==
    LET room == read_by_id(rooms, data.room_id).res
        days == data.to_date - data.from_date
    IN  IF room.kind # "ok" THEN [tbl |-> bookings, res |-> room]
        ELSE LET out == create(bookings, nid, data @@ [price |-> room.val.price * days])
             IN  IF days <= 0 THEN [tbl |-> out.tbl, res |-> Raise("InvalidDateError")]
                 ELSE out

create_booking_RejectsUnknownCustomer(data, bookings, nid, rooms) ==
    LET room == read_by_id(rooms, data.room_id).res
        days == data.to_date - data.from_date
    IN  IF room.kind # "ok" THEN [tbl |-> bookings, res |-> room]
        ELSE IF days <= 0 \/ data.customer_id > MaxCustomers
        THEN [tbl |-> bookings, res |-> Raise("InvalidDateError")]
        ELSE create(bookings, nid, data @@ [price |-> room.val.price * days])

create_booking_RejectsOverlap(data, bookings, nid, rooms) ==
    LET room == read_by_id(rooms, data.room_id).res
        days == data.to_date - data.from_date
        taken == \E i \in DOMAIN bookings :
                    /\ bookings[i].room_id = data.room_id
                    /\ bookings[i].from_date < data.to_date
                    /\ data.from_date < bookings[i].to_date
    IN  IF room.kind # "ok" THEN [tbl |-> bookings, res |-> room]
        ELSE IF days <= 0 \/ taken
        THEN [tbl |-> bookings, res |-> Raise("InvalidDateError")]
        ELSE create(bookings, nid, data @@ [price |-> room.val.price * days])

create_booking(data, bookings, nid, rooms) ==
    LET room == read_by_id(rooms, data.room_id).res
        days == data.to_date - data.from_date
    IN  IF room.kind # "ok" THEN [tbl |-> bookings, res |-> room]
        ELSE IF days <= 0
        THEN [tbl |-> bookings, res |-> Raise("InvalidDateError")]
        ELSE create(bookings, nid, data @@ [price |-> BookingPrice(room.val, days)])

delete_booking_SwallowsError(booking_id, bookings) ==
    IF Get(bookings, booking_id) = None
    THEN [tbl |-> bookings, res |-> ReturnedNone]
    ELSE delete(bookings, booking_id)

delete_booking(booking_id, bookings) == delete(bookings, booking_id)

----------------------------------------------------------------------------
(* hotel/operations/customers.py: these work on the customer table through *)
(* their own session.                                                       *)

read_all_customers(customers) == read_all(customers)

read_customer_by_id(customer_id, customers) == read_by_id(customers, customer_id)

create_customer(data, customers, nid) == create(customers, nid, data)

SetAttrs(row, data) ==
    [f \in DOMAIN row |-> IF f \in DOMAIN data THEN ToStored(data[f]) ELSE row[f]]

update_customer(customer_id, data, customers, nullableCols) ==
    IF Get(customers, customer_id) = None
    THEN [tbl |-> customers,
          res |-> IF DOMAIN data # {} THEN Raise("AttributeError") ELSE to_dict(None)]
    ELSE IF ~nullableCols /\ \E f \in DOMAIN data : data[f] = None
    THEN [tbl |-> customers, res |-> Raise("IntegrityError")]
    ELSE LET row == SetAttrs(customers[customer_id], data)
         IN  [tbl |-> (customer_id :> row) @@ customers, res |-> Ok(row)]

----------------------------------------------------------------------------
(* hotel/tests/stubs: the test doubles.  A stub holds a list of records     *)
(* given at construction; dates are day numbers of December 2025.           *)

StubId == 999

RoomStub_init ==
    <<[id |-> 1, number |-> "101", size |-> 20, price |-> 100],
      [id |-> 2, number |-> "102", size |-> 25, price |-> 120],
      [id |-> 3, number |-> "103", size |-> 30, price |-> 150]>>

CustomerStub_init ==
    <<[id |-> 1, name |-> "Alice", email |-> "alice@example.com"],
      [id |-> 2, name |-> "Bob", email |-> "bob@example.com"],
      [id |-> 3, name |-> "Charlie", email |-> "charlie@example.com"]>>

BookingStub_init ==
    <<[id |-> 1, from_date |-> 20, to_date |-> 22, price |-> 200,
       customer_id |-> 1, room_id |-> 1],
      [id |-> 2, from_date |-> 23, to_date |-> 25, price |-> 300,
       customer_id |-> 2, room_id |-> 2]>>

(* next((r for r in records if r["id"] == id), dict(records[0])) *)
FirstWithId(records, id) ==
    LET found == SelectSeq(records, LAMBDA r : r.id = id)
    IN  IF found # <<>> THEN found[1] ELSE records[1]

RoomStub_read_by_id(rooms, id) ==
    [tbl |-> rooms, res |-> Ok([FirstWithId(rooms, id) EXCEPT !.id = id])]

RoomStub_read_all(rooms) == [tbl |-> rooms, res |-> Ok(rooms)]

RoomStub_create(rooms, data) == [tbl |-> rooms, res |-> Ok([id |-> StubId] @@ data)]

RoomStub_delete(rooms, id) ==
    [tbl |-> rooms,
     res |-> Ok([id |-> id, number |-> "Deleted Room", size |-> 0, price |-> 0])]

CustomerStub_read_by_id(customers, id) ==
    [tbl |-> customers, res |-> Ok([FirstWithId(customers, id) EXCEPT !.id = id])]

CustomerStub_read_all(customers) == [tbl |-> customers, res |-> Ok(customers)]

CustomerStub_create(customers, data) ==
    [tbl |-> customers, res |-> Ok([id |-> StubId] @@ data)]

BookingStub_read_by_id_Renames(bookings, id) ==
    IF \E n \in DOMAIN bookings : bookings[n].id = id
    THEN [tbl |-> bookings, res |-> Ok(FirstWithId(bookings, id))]
    ELSE [tbl |-> [bookings EXCEPT ![1].id = id],
          res |-> Ok([bookings[1] EXCEPT !.id = id])]

BookingStub_read_by_id(bookings, id) ==
    [tbl |-> bookings, res |-> Ok([FirstWithId(bookings, id) EXCEPT !.id = id])]

BookingStub_read_all(bookings) == [tbl |-> bookings, res |-> Ok(bookings)]

BookingStub_create(bookings, data) ==
    [tbl |-> bookings, res |-> Ok([id |-> StubId] @@ data)]

(* DataStubInterface: what a stub inherits when it does not override. *)
DataStubInterface_update(records, id, data) ==
    [tbl |-> records, res |-> Raise("NotImplementedError")]

DataStubInterface_delete_DropsSilently(records, id) ==
    [tbl |-> SelectSeq(records, LAMBDA r : r.id # id), res |-> ReturnedNone]

DataStubInterface_delete(records, id) ==
    [tbl |-> records, res |-> Raise("NotImplementedError")]

(* hotel/operations/bookings.py and rooms.py, handed stubs as interfaces. *)
create_booking_stubbed(data, bookings, rooms) ==
    LET room == RoomStub_read_by_id(rooms, data.room_id).res
        days == data.to_date - data.from_date
    IN  IF days <= 0
        THEN [tbl |-> bookings, res |-> Raise("InvalidDateError")]
        ELSE BookingStub_create(bookings, data @@ [price |-> BookingPrice(room.val, days)])

----------------------------------------------------------------------------
(* Inputs. *)

Days == {1, 2, 3}
Prices == {100, 150}

RoomCreateData == [number : {"101"}, size : {20}, price : Prices]

CustomerCreateData ==
    [first_name : {"David"}, last_name : {"Original"},
     email_address : {"david@example.com"}]

BookingCreateData ==
    [room_id : Ids("room"), customer_id : {1}, from_date : {1, 2}, to_date : Days]

StayCreateData ==
    [room_id : Ids("room"), customer_id : {1}, from_date : {1}, to_date : {1, 3}]

NightsCreateData ==
    [room_id : Ids("room"), customer_id : {1}, from_date : {1}, to_date : Days]

(* Update payloads: per key, the values a caller may give besides None. *)
RECURSIVE PayloadsOver(_, _)
PayloadsOver(K, vals) ==
    IF K = {} THEN {EmptyTable}
    ELSE LET key == CHOOSE x \in K : TRUE
         IN  UNION {{(key :> v) @@ p : v \in {None} \cup {Some(x) : x \in vals[key]}} :
                        p \in PayloadsOver(K \ {key}, vals)}

Payloads(vals, n) ==
    UNION {PayloadsOver(K, vals) : K \in {S \in SUBSET DOMAIN vals : Cardinality(S) <= n}}

RoomPricePayloads == Payloads([price |-> Prices], 1)

BookingStayPayloads == Payloads([to_date |-> {1}, price |-> {500}], 1)

CustomerUpdateData ==
    Payloads([first_name |-> {"Dana"}, email_address |-> {"david.new@example.com"}], 2)

CustomerPayloads ==
    Payloads([id |-> Ids("customer"), first_name |-> {"Dana"}, last_name |-> {},
              email_address |-> {"david.new@example.com"}], MaxKeys)

CustomerEmailPayloads == Payloads([email_address |-> {"david.new@example.com"}], 1)

CustomerIdPayloads ==
    Payloads([id |-> Ids("customer"), email_address |-> {"david.new@example.com"}], 1)

(* Rooms as RoomCreateData admits them: size and price are any integers. *)
IntRoomCreateData == [number : {"101"}, size : {20, 0}, price : {-100, 0, 100}]

(* Bookings naming rooms and customers that may or may not exist. *)
RefCreateData ==
    [room_id : {1, MaxRooms + 1}, customer_id : {1, MaxCustomers + 1},
     from_date : {1, 2}, to_date : {3}]

(* Ids asked of a stub: those of its default records, and one of none. *)
StubIds == {1, 2, 3, 5}

StubBookingCreateData ==
    [room_id : StubIds, customer_id : {1, 2}, from_date : {25}, to_date : {25, 28}]

----------------------------------------------------------------------------
(* State machine. *)

(* A call that takes no data passes NoArg; one that takes no id passes 0,   *)
(* which is no primary key.                                                *)
NoArg == <<>>

StubName(k) == CASE k = "room" -> "room_stub"
                 [] k = "customer" -> "customer_stub"
                 [] k = "booking" -> "booking_stub"

Stores == Kinds \cup {StubName(k) : k \in Kinds}

Call(op, k, id, data, out) ==
    [op |-> op, store |-> k, id |-> id, data |-> data, res |-> out.res]

Moved(k, id, out) ==
    /\ k = "booking"
    /\ id \in DOMAIN roomPriceRead
    /\ id \notin DOMAIN out.tbl

Creates == {"create", "create_room", "create_customer", "create_booking"}

Assign(op, store, out) ==
    assigned' = IF op \in Creates /\ out.res.kind = "ok"
                THEN [assigned EXCEPT ![store] = @ \cup {out.res.val.id}]
                ELSE assigned

Track(op, k, id, data, out) ==
    /\ stub' = stub
    /\ UNCHANGED <<inflight, trace>>
    /\ Assign(op, k, out)
    /\ nextId' = [nextId EXCEPT ![k] = NextIdAfter(nextId[k], out.tbl)]
    /\ last' = Call(op, k, id, data, out)
    /\ deleted' = [deleted EXCEPT ![k] =
            (IF op \in {"delete", "delete_booking"} /\ out.res.kind = "ok"
             THEN @ \cup {id} ELSE @) \ (DOMAIN out.tbl \ DOMAIN db[k])]
    /\ roomPriceRead' =
            IF op = "create_booking" /\ out.res.kind = "ok"
            THEN roomPriceRead @@ (out.res.val.id :> db.room[data.room_id].price)
            ELSE IF Moved(k, id, out)
            THEN IF op = "update"
                 THEN Drop(roomPriceRead, id) @@ (out.res.val.id :> roomPriceRead[id])
                 ELSE Drop(roomPriceRead, id)
            ELSE roomPriceRead

Commit(op, k, id, data, out) ==
    /\ db' = [db EXCEPT ![k] = out.tbl]
    /\ Track(op, k, id, data, out)

CanCreate(k) == nextId[k] <= MaxId(k)

(* create_booking, one store call or statement at a time, for callers whose calls *)
(* may interleave.                                                             *)
Callers == {"a", "b"}

Idle == [pc |-> "idle", data |-> NoArg, room |-> ReturnedNone, res |-> ReturnedNone]

Returns(c, data, res) ==
    last' = [op |-> "create_booking", store |-> "booking", id |-> 0, data |-> data,
             res |-> res]

Enter_ChecksDatesFirst(c, data) ==
    /\ inflight[c].pc = "idle"
    /\ IF data.to_date - data.from_date <= 0
       THEN /\ inflight' = [inflight EXCEPT ![c] =
                    [@ EXCEPT !.pc = "failed", !.data = data,
                              !.res = Raise("InvalidDateError")]]
            /\ Returns(c, data, Raise("InvalidDateError"))
       ELSE /\ inflight' = [inflight EXCEPT ![c] = [@ EXCEPT !.pc = "read", !.data = data]]
            /\ last' = last
    /\ UNCHANGED <<db, nextId, roomPriceRead, deleted, stub, assigned, trace>>

Enter(c, data) ==
    /\ inflight[c].pc = "idle"
    /\ inflight' = [inflight EXCEPT ![c] = [@ EXCEPT !.pc = "read", !.data = data]]
    /\ UNCHANGED <<db, nextId, last, roomPriceRead, deleted, stub, assigned, trace>>

ReadRoom_Retries(c) ==
    /\ inflight[c].pc = "read"
    /\ Len(trace) < 6
    /\ LET room == read_by_id(db.room, inflight[c].data.room_id).res
       IN  /\ inflight' = [inflight EXCEPT ![c] =
                    IF room.kind = "ok" THEN [@ EXCEPT !.pc = "check", !.room = room] ELSE @]
    /\ trace' = Append(trace, [who |-> c, call |-> "read_by_id"])
    /\ UNCHANGED <<db, nextId, last, roomPriceRead, deleted, stub, assigned>>

ReadRoom(c) ==
    /\ inflight[c].pc = "read"
    /\ LET room == read_by_id(db.room, inflight[c].data.room_id).res
       IN  IF room.kind = "ok"
           THEN /\ inflight' = [inflight EXCEPT ![c] = [@ EXCEPT !.pc = "check", !.room = room]]
                /\ last' = last
           ELSE /\ inflight' = [inflight EXCEPT ![c] =
                        [@ EXCEPT !.pc = "failed", !.room = room, !.res = room]]
                /\ Returns(c, inflight[c].data, room)
    /\ trace' = Append(trace, [who |-> c, call |-> "read_by_id"])
    /\ UNCHANGED <<db, nextId, roomPriceRead, deleted, stub, assigned>>

CheckDates(c) ==
    /\ inflight[c].pc = "check"
    /\ IF inflight[c].data.to_date - inflight[c].data.from_date <= 0
       THEN /\ inflight' = [inflight EXCEPT ![c] =
                    [@ EXCEPT !.pc = "failed", !.res = Raise("InvalidDateError")]]
            /\ Returns(c, inflight[c].data, Raise("InvalidDateError"))
       ELSE /\ inflight' = [inflight EXCEPT ![c] = [@ EXCEPT !.pc = "create"]]
            /\ last' = last
    /\ UNCHANGED <<db, nextId, roomPriceRead, deleted, stub, assigned, trace>>

Written(c, room) ==
    LET data == inflight[c].data
        days == data.to_date - data.from_date
        out == create(db.booking, nextId.booking, data @@ [price |-> BookingPrice(room, days)])
    IN  /\ db' = [db EXCEPT !.booking = out.tbl]
        /\ nextId' = [nextId EXCEPT !.booking = NextIdAfter(@, out.tbl)]
        /\ Assign("create_booking", "booking", out)
        /\ roomPriceRead' = roomPriceRead @@ (out.res.val.id :> inflight[c].room.val.price)
        /\ inflight' = [inflight EXCEPT ![c] = [@ EXCEPT !.pc = "done", !.res = out.res]]
        /\ Returns(c, data, out.res)
        /\ trace' = Append(trace, [who |-> c, call |-> "create"])
        /\ UNCHANGED <<deleted, stub>>

WriteBooking_ReadsPriceAgain(c) ==
    /\ inflight[c].pc = "create"
    /\ CanCreate("booking")
    /\ inflight[c].data.room_id \in DOMAIN db.room
    /\ Written(c, db.room[inflight[c].data.room_id])

WriteBooking(c) ==
    /\ inflight[c].pc = "create"
    /\ CanCreate("booking")
    /\ Written(c, inflight[c].room.val)

(* DBInterface, called on the table of kind k. *)
DBInterface_read_by_id(k, id) ==
    Commit("read_by_id", k, id, NoArg, read_by_id(db[k], id))

DBInterface_read_all(k) ==
    Commit("read_all", k, 0, NoArg, read_all(db[k]))

DBInterface_create(k, data) ==
    /\ CanCreate(k)
    /\ Commit("create", k, 0, data, create(db[k], nextId[k], data))

DBInterface_update_RepricesBookings(k, id, data) ==
    LET out == update(db[k], id, data)
        reprice(b) == IF k = "room" /\ out.res.kind = "ok" /\ b.room_id = id
                      THEN [b EXCEPT !.price = (b.to_date - b.from_date) * out.res.val.price]
                      ELSE b
        written == [db EXCEPT ![k] = out.tbl]
    IN  /\ db' = [written EXCEPT !.booking = [i \in DOMAIN @ |-> reprice(@[i])]]
        /\ Track("update", k, id, data, out)

DBInterface_update(k, id, data) ==
    Commit("update", k, id, data, update(db[k], id, data))

DBInterface_delete_Cascades(k, id) ==
    LET out == delete(db[k], id)
        refers(b) == (k = "room" /\ b.room_id = id) \/ (k = "customer" /\ b.customer_id = id)
        written == [db EXCEPT ![k] = out.tbl]
        kept == {i \in DOMAIN db.booking : ~refers(db.booking[i])}
    IN  /\ db' = IF out.res.kind = "ok" /\ k # "booking"
                 THEN [written EXCEPT !.booking = [i \in kept |-> db.booking[i]]]
                 ELSE written
        /\ Track("delete", k, id, NoArg, out)

DBInterface_delete(k, id) ==
    Commit("delete", k, id, NoArg, delete(db[k], id))

(* Room operations. *)
ReadAllRooms ==
    Commit("read_all_rooms", "room", 0, NoArg, read_all_rooms(db.room))

ReadRoomById(id) ==
    Commit("read_room_by_id", "room", id, NoArg, read_room_by_id(id, db.room))

CreateRoom(data) ==
    /\ CanCreate("room")
    /\ Commit("create_room", "room", 0, data, create_room(data, db.room, nextId.room))

(* Booking operations. *)
ReadAllBookings ==
    Commit("read_all_bookings", "booking", 0, NoArg, read_all_bookings(db.booking))

ReadBookingById(id) ==
    Commit("read_booking_by_id", "booking", id, NoArg, read_booking_by_id(id, db.booking))

CreateBooking(data) ==
    /\ CanCreate("booking")
    /\ Commit("create_booking", "booking", 0, data,
              create_booking(data, db.booking, nextId.booking, db.room))

DeleteBooking_RemovesRoom(id) ==
    LET out == delete_booking(id, db.booking)
    IN  /\ db' = [db EXCEPT !.booking = out.tbl,
                            !.room = IF out.res.kind = "ok"
                                     THEN Drop(@, out.res.val.room_id) ELSE @]
        /\ Track("delete_booking", "booking", id, NoArg, out)

DeleteBooking(id) ==
    Commit("delete_booking", "booking", id, NoArg, delete_booking(id, db.booking))

(* Customer operations. *)
ReadAllCustomers ==
    Commit("read_all_customers", "customer", 0, NoArg, read_all_customers(db.customer))

ReadCustomerById(id) ==
    Commit("read_customer_by_id", "customer", id, NoArg,
           read_customer_by_id(id, db.customer))

CreateCustomer(data) ==
    /\ CanCreate("customer")
    /\ Commit("create_customer", "customer", 0, data,
              create_customer(data, db.customer, nextId.customer))

(* Whether the customer columns accept NULL is the schema's choice. *)
UpdateCustomer(id, data) ==
    \E nullableCols \in BOOLEAN :
        Commit("update_customer", "customer", id, data,
               update_customer(id, data, db.customer, nullableCols))

Init ==
    /\ db = [k \in Kinds |-> EmptyTable]
    /\ nextId = [k \in Kinds |-> 1]
    /\ last = [op |-> "init", store |-> "room", id |-> 0, data |-> NoArg,
               res |-> ReturnedNone]
    /\ roomPriceRead = EmptyTable
    /\ deleted = [k \in Kinds |-> {}]
    /\ stub = [room |-> RoomStub_init, customer |-> CustomerStub_init,
               booking |-> BookingStub_init]
    /\ assigned = [st \in Stores |-> {}]
    /\ inflight = [c \in Callers |-> Idle]
    /\ trace = <<>>

(* Rooms and bookings. *)
NextBookings ==
    \/ \E data \in RoomCreateData : CreateRoom(data)
    \/ \E id \in Ids("room"), data \in RoomPricePayloads :
            DBInterface_update("room", id, data)
    \/ \E id \in Ids("room") : DBInterface_delete("room", id)
    \/ \E data \in BookingCreateData : CreateBooking(data)
    \/ \E id \in Ids("booking") : DeleteBooking(id)
    \/ \E id \in Ids("booking") : ReadBookingById(id)
    \/ ReadAllBookings
    \/ \E id \in Ids("room") : ReadRoomById(id)

Spec == Init /\ [][NextBookings]_vars

(* Bookings under updates of the booking table and of room prices. *)
NextStays ==
    \/ \E data \in RoomCreateData : CreateRoom(data)
    \/ \E id \in Ids("room"), data \in RoomPricePayloads :
            DBInterface_update("room", id, data)
    \/ \E data \in StayCreateData : CreateBooking(data)
    \/ \E id \in Ids("booking") : DeleteBooking(id)
    \/ \E id \in Ids("booking"), data \in BookingStayPayloads :
            DBInterface_update("booking", id, data)

SpecStays == Init /\ [][NextStays]_vars

(* The customer operations, and DBInterface on the same table. *)
NextCustomers ==
    \/ \E data \in CustomerCreateData : CreateCustomer(data)
    \/ \E id \in Ids("customer"), data \in CustomerUpdateData : UpdateCustomer(id, data)
    \/ \E id \in Ids("customer") : ReadCustomerById(id)
    \/ ReadAllCustomers
    \/ \E id \in Ids("customer"), data \in CustomerEmailPayloads :
            DBInterface_update("customer", id, data)
    \/ \E id \in Ids("customer") : DBInterface_delete("customer", id)

SpecCustomers == Init /\ [][NextCustomers]_vars

(* DBInterface alone, on the customer table. *)
NextStore ==
    \/ \E data \in CustomerCreateData : DBInterface_create("customer", data)
    \/ \E id \in Ids("customer"), data \in CustomerPayloads :
            DBInterface_update("customer", id, data)
    \/ \E id \in Ids("customer") : DBInterface_delete("customer", id)
    \/ \E id \in Ids("customer") : DBInterface_read_by_id("customer", id)
    \/ DBInterface_read_all("customer")

SpecStore == Init /\ [][NextStore]_vars

(* Rooms, customers and the bookings that refer to them. *)
NextRefs ==
    \/ \E data \in RoomCreateData : CreateRoom(data)
    \/ \E data \in CustomerCreateData : CreateCustomer(data)
    \/ \E data \in RefCreateData : CreateBooking(data)
    \/ \E id \in Ids("room") : DBInterface_delete("room", id)
    \/ \E id \in Ids("customer") : DBInterface_delete("customer", id)

SpecRefs == Init /\ [][NextRefs]_vars

(* Bookings of rooms of any price. *)
NextPrices ==
    \/ \E data \in IntRoomCreateData : CreateRoom(data)
    \/ \E data \in StayCreateData : CreateBooking(data)
    \/ \E id \in Ids("booking") : DeleteBooking(id)
    \/ \E id \in Ids("booking") : ReadBookingById(id)

SpecPrices == Init /\ [][NextPrices]_vars

(* Updates of customers and rooms, by update_customer and by DBInterface. *)
NextUpdates ==
    \/ \E data \in RoomCreateData : CreateRoom(data)
    \/ \E data \in CustomerCreateData : CreateCustomer(data)
    \/ \E id \in Ids("customer"), data \in CustomerEmailPayloads : UpdateCustomer(id, data)
    \/ \E id \in Ids("customer"), data \in CustomerIdPayloads :
            DBInterface_update("customer", id, data)
    \/ \E id \in Ids("room"), data \in RoomPricePayloads :
            DBInterface_update("room", id, data)

SpecUpdates == Init /\ [][NextUpdates]_vars

(* create_booking calls that interleave with each other and with changes of the *)
(* room.                                                                       *)
NextSteps ==
    \/ \E data \in RoomCreateData : CreateRoom(data)
    \/ \E id \in Ids("room"), data \in RoomPricePayloads :
            DBInterface_update("room", id, data)
    \/ \E id \in Ids("room") : DBInterface_delete("room", id)
    \/ \E c \in Callers, data \in NightsCreateData : Enter(c, data)
    \/ \E c \in Callers : ReadRoom(c)
    \/ \E c \in Callers : CheckDates(c)
    \/ \E c \in Callers : WriteBooking(c)

SpecSteps == Init /\ [][NextSteps]_vars

(* The operations and direct calls on the test doubles. *)

Answer(op, k, id, data, out) ==
    /\ stub' = [stub EXCEPT ![k] = out.tbl]
    /\ last' = [op |-> op, store |-> StubName(k), id |-> id, data |-> data,
                res |-> out.res]
    /\ Assign(op, StubName(k), out)
    /\ UNCHANGED <<db, nextId, roomPriceRead, deleted, inflight, trace>>

StubReadRoomById(id) ==
    Answer("read_room_by_id", "room", id, NoArg, RoomStub_read_by_id(stub.room, id))

StubReadAllRooms ==
    Answer("read_all_rooms", "room", 0, NoArg, RoomStub_read_all(stub.room))

StubCreateRoom(data) ==
    Answer("create_room", "room", 0, data, RoomStub_create(stub.room, data))

RoomStubDelete(id) ==
    Answer("delete", "room", id, NoArg, RoomStub_delete(stub.room, id))

StubReadBookingById(id) ==
    Answer("read_booking_by_id", "booking", id, NoArg,
           BookingStub_read_by_id(stub.booking, id))

StubReadAllBookings ==
    Answer("read_all_bookings", "booking", 0, NoArg, BookingStub_read_all(stub.booking))

StubCreateBooking(data) ==
    Answer("create_booking", "booking", 0, data,
           create_booking_stubbed(data, stub.booking, stub.room))

StubDeleteBooking(id) ==
    Answer("delete_booking", "booking", id, NoArg,
           DataStubInterface_delete(stub.booking, id))

CustomerStubReadById(id) ==
    Answer("read_by_id", "customer", id, NoArg,
           CustomerStub_read_by_id(stub.customer, id))

CustomerStubReadAll ==
    Answer("read_all", "customer", 0, NoArg, CustomerStub_read_all(stub.customer))

CustomerStubCreate(data) ==
    Answer("create", "customer", 0, data, CustomerStub_create(stub.customer, data))

CustomerStubDelete(id) ==
    Answer("delete", "customer", id, NoArg, DataStubInterface_delete(stub.customer, id))

(* A stub that keeps DataStubInterface's update, holding the records of kind k. *)
InheritedUpdate(k, id, data) ==
    LET out == DataStubInterface_update(stub[k], id, data)
    IN  /\ stub' = [stub EXCEPT ![k] = out.tbl]
        /\ last' = [op |-> "update", store |-> "stub_interface", id |-> id,
                    data |-> data, res |-> out.res]
        /\ UNCHANGED <<db, nextId, roomPriceRead, deleted, assigned, inflight, trace>>

(* The fixtures build the stubs with their default records; a test may pass *)
(* its own list, here the default rooms without the first.                  *)
InitStubs ==
    /\ db = [k \in Kinds |-> EmptyTable]
    /\ nextId = [k \in Kinds |-> 1]
    /\ last = [op |-> "init", store |-> "room", id |-> 0, data |-> NoArg,
               res |-> ReturnedNone]
    /\ roomPriceRead = EmptyTable
    /\ deleted = [k \in Kinds |-> {}]
    /\ \E rooms \in {RoomStub_init, Tail(RoomStub_init)} :
            stub = [room |-> rooms, customer |-> CustomerStub_init,
                    booking |-> BookingStub_init]
    /\ assigned = [st \in Stores |-> {}]
    /\ inflight = [c \in Callers |-> Idle]
    /\ trace = <<>>

NextStubs ==
    \/ \E id \in StubIds : StubReadRoomById(id)
    \/ StubReadAllRooms
    \/ \E data \in RoomCreateData : StubCreateRoom(data)
    \/ \E id \in StubIds : RoomStubDelete(id)
    \/ \E id \in StubIds : StubReadBookingById(id)
    \/ StubReadAllBookings
    \/ \E data \in StubBookingCreateData : StubCreateBooking(data)
    \/ \E id \in StubIds : StubDeleteBooking(id)
    \/ \E id \in StubIds : CustomerStubReadById(id)
    \/ CustomerStubReadAll
    \/ \E data \in CustomerCreateData : CustomerStubCreate(data)
    \/ \E id \in StubIds : CustomerStubDelete(id)
    \/ \E id \in StubIds, data \in CustomerEmailPayloads :
            InheritedUpdate("customer", id, data)

SpecStubs == InitStubs /\ [][NextStubs]_vars

(* The operations layer on the tables, and its reads on the test doubles. *)
NextOps ==
    \/ \E data \in RoomCreateData : CreateRoom(data)
    \/ \E data \in CustomerCreateData : CreateCustomer(data)
    \/ \E id \in Ids("customer"), data \in CustomerEmailPayloads : UpdateCustomer(id, data)
    \/ \E data \in StayCreateData : CreateBooking(data)
    \/ \E id \in Ids("booking") : DeleteBooking(id)
    \/ ReadAllRooms
    \/ \E id \in Ids("room") : ReadRoomById(id)
    \/ ReadAllCustomers
    \/ \E id \in Ids("customer") : ReadCustomerById(id)
    \/ ReadAllBookings
    \/ \E id \in Ids("booking") : ReadBookingById(id)
    \/ StubReadAllRooms
    \/ \E id \in StubIds : StubReadRoomById(id)
    \/ StubReadAllBookings
    \/ \E id \in StubIds : StubReadBookingById(id)

SpecOps == Init /\ [][NextOps]_vars

----------------------------------------------------------------------------
(* Properties. *)

Nights(b) == b.to_date - b.from_date

IsCreateBooking(c) == c.op = "create_booking"

\* C1: a create_booking call with to_date after from_date and an existing room
\* returns and stores a booking whose price is nights times the room's price and
\* whose room_id, customer_id, from_date and to_date are the caller's.
C1_PriceIsNightsTimesRoomPrice ==
    (/\ IsCreateBooking(last)
     /\ last.data.to_date > last.data.from_date
     /\ last.data.room_id \in DOMAIN db.room)
    => /\ last.res.kind = "ok"
       /\ last.res.val.price = Nights(last.data) * db.room[last.data.room_id].price
       /\ \A f \in DOMAIN last.data : last.res.val[f] = last.data[f]
       /\ last.res.val.id \in DOMAIN db.booking
       /\ db.booking[last.res.val.id] = last.res.val

C1_Witness ==
    /\ IsCreateBooking(last)
    /\ Nights(last.data) = 2
    /\ last.data.room_id \in DOMAIN db.room
    /\ last.res.kind = "ok"
    /\ last.res.val.price = 300

StayDatesOrdered == \A i \in DOMAIN db.booking : db.booking[i].to_date > db.booking[i].from_date

BookingUpdateSets(c, fields) ==
    /\ c.op = "update"
    /\ c.store = "booking"
    /\ \E f \in fields \cap DOMAIN c.data : c.data[f] # None

\* C3 as stated: after any sequence of create_booking, delete_booking and
\* booking-table update calls every stored booking has to_date after from_date.
C3_DatesOrderedAlways == StayDatesOrdered

\* C3 amended: every stored booking has to_date after from_date as long as no
\* booking-table update sets from_date or to_date; create_booking, delete_booking
\* and updates of other fields keep it.
C3_DatesOrderedUnlessUpdated ==
    [][(StayDatesOrdered /\ ~BookingUpdateSets(last', {"from_date", "to_date"}))
        => StayDatesOrdered']_vars

C3_Witness ==
    /\ BookingUpdateSets(last, {"price"})
    /\ last.res.kind = "ok"
    /\ StayDatesOrdered
    /\ Cardinality(DOMAIN db.booking) = 2

PriceIsSnapshot ==
    /\ DOMAIN roomPriceRead = DOMAIN db.booking
    /\ \A i \in DOMAIN db.booking :
            db.booking[i].price = Nights(db.booking[i]) * roomPriceRead[i]

\* C4 as stated: after any sequence of create_room, create_booking, delete_booking
\* and room-table or booking-table update calls, every stored booking's price is
\* its nights times the price its room had when the booking was created.
C4_PriceIsSnapshotAlways == PriceIsSnapshot

\* C4 amended: every stored booking's price is its nights times the price its room
\* had when the booking was created, as long as no booking-table update sets
\* price, from_date or to_date; room-table updates do not affect it.
C4_PriceIsSnapshotUnlessUpdated ==
    [][(PriceIsSnapshot /\ ~BookingUpdateSets(last', {"price", "from_date", "to_date"}))
        => PriceIsSnapshot']_vars

C4_Witness ==
    /\ last.op = "update"
    /\ last.store = "room"
    /\ last.res.kind = "ok"
    /\ PriceIsSnapshot
    /\ \E i \in DOMAIN db.booking :
            /\ db.booking[i].room_id = last.id
            /\ db.room[last.id].price # roomPriceRead[i]

\* C5: a room-table update, whatever it does to the room's price, leaves every
\* stored booking as it was.
C5_RoomUpdateKeepsBookings ==
    [][(last'.op = "update" /\ last'.store = "room") => db'.booking = db.booking]_vars

C5_Witness ==
    /\ last.op = "update"
    /\ last.store = "room"
    /\ last.res.kind = "ok"
    /\ \E i \in DOMAIN db.booking :
            /\ db.booking[i].room_id = last.id
            /\ db.booking[i].price # Nights(db.booking[i]) * last.res.val.price

Applied(old, data) ==
    [f \in DOMAIN old |-> IF f \in DOMAIN data /\ data[f] # None THEN data[f][1] ELSE old[f]]

\* C6: update(id, data) on an existing id gives every field that data holds
\* non-null the value given and keeps every other field; the record returned is
\* the one a following read_by_id(id) returns; an update with no non-null field
\* leaves the record as it was.
C6_PartialUpdate ==
    [][(last'.op = "update" /\ last'.id \in DOMAIN db[last'.store])
        => LET old == db[last'.store][last'.id]
           IN  /\ last'.res = Ok(Applied(old, last'.data))
               /\ read_by_id(db'[last'.store], last'.id).res = last'.res
               /\ (\A f \in DOMAIN last'.data : last'.data[f] = None)
                    => db'[last'.store] = db[last'.store]]_vars

CustomerNames == {"first_name", "last_name", "email_address"}

\* C7: update_customer(id, input) on an existing customer sets each of first_name,
\* last_name, email_address that input gives non-null and leaves the others as
\* stored; a field given as null is not overwritten with null.
C7_NullLeavesFieldUnchanged ==
    [][(last'.op = "update_customer" /\ last'.id \in DOMAIN db.customer)
        => /\ last'.id \in DOMAIN db'.customer
           /\ \A f \in CustomerNames :
                db'.customer[last'.id][f] = Applied(db.customer[last'.id], last'.data)[f]]_vars

IsDelete(c) == c.op \in {"delete", "delete_booking"}

\* C9: delete(id) on an existing id, and delete_booking through it, returns the
\* record as it was stored and removes that record only: read_all holds one record
\* fewer, none with that id, and every other record of every table is unchanged.
C9_DeleteRemovesExactlyThatRecord ==
    [][(IsDelete(last') /\ last'.id \in DOMAIN db[last'.store])
        => LET k == last'.store
               id == last'.id
           IN  /\ last'.res = Ok(db[k][id])
               /\ DOMAIN db'[k] = DOMAIN db[k] \ {id}
               /\ \A j \in DOMAIN db'[k] : db'[k][j] = db[k][j]
               /\ \A o \in Kinds \ {k} : db'[o] = db[o]
               /\ Len(read_all(db'[k]).res.val) = Len(read_all(db[k]).res.val) - 1
               /\ \A n \in 1 .. Len(read_all(db'[k]).res.val) :
                        read_all(db'[k]).res.val[n].id # id]_vars

C9_Witness ==
    /\ last.op = "delete_booking"
    /\ last.res.kind = "ok"
    /\ last.res.val.id = last.id
    /\ last.id \notin DOMAIN db.booking
    /\ DOMAIN db.booking # {}

IsReadById(c) ==
    c.op \in {"read_by_id", "read_room_by_id", "read_booking_by_id", "read_customer_by_id"}

\* C10: once delete(id) has succeeded, read_by_id(id) on that table fails with
\* NotFound for as long as no record holds that id again; it returns neither the
\* deleted record nor another record's data.
C10_ReadAfterDeleteNotFound ==
    (IsReadById(last) /\ last.id \in deleted[last.store]) => last.res = Raise("NotFound")

C10_Witness ==
    /\ last.op = "read_booking_by_id"
    /\ last.id \in deleted.booking
    /\ last.res = Raise("NotFound")
    /\ DOMAIN db.booking # {}

\* C11: delete(id) and delete_booking(id) with an id that no record of the table
\* has fail with NotFound and leave every table as it was; so a second delete of
\* the same id fails and removes nothing more.
C11_DeleteMissingFailsNotFound ==
    [][(IsDelete(last') /\ last'.id \notin DOMAIN db[last'.store])
        => (last'.res = Raise("NotFound") /\ db' = db)]_vars

(* The ids of the records a store holds: a table's keys, a stub's listed ids. *)
StubRecordIds(k) == {stub[k][n].id : n \in DOMAIN stub[k]}

RoomIdsSeenBy(c) ==
    IF c.store = "booking_stub" THEN StubRecordIds("room") ELSE DOMAIN db.room

\* C12: a create_booking call with to_date after from_date and a room_id that
\* names no room of the room store fails with an error; it returns no booking,
\* neither with price zero nor with a price taken from another room.
C12_MissingRoomFails ==
    (/\ IsCreateBooking(last)
     /\ last.data.to_date > last.data.from_date
     /\ last.data.room_id \notin RoomIdsSeenBy(last))
    => last.res.kind = "raise"

IdsSeenBy(c) ==
    CASE c.store = "room_stub" -> StubRecordIds("room")
      [] c.store = "customer_stub" -> StubRecordIds("customer")
      [] c.store = "booking_stub" -> StubRecordIds("booking")
      [] OTHER -> DOMAIN db[c.store]

\* C13: read_room_by_id, read_customer_by_id and read_booking_by_id (and the
\* store's read_by_id under them) called with an id that no record of the store
\* has yield NotFound or an absent value; they never return a record.
C13_MissingIdYieldsNoRecord ==
    (IsReadById(last) /\ last.id \notin IdsSeenBy(last))
    => (last.res = Raise("NotFound") \/ last.res = ReturnedNone)

IsCreate(c) == c.op \in Creates

IdsAreKeys ==
    /\ \A k \in Kinds : \A i \in DOMAIN db[k] : db[k][i].id = i
    /\ \A k \in Kinds : \A m, n \in DOMAIN stub[k] : stub[k][m].id = stub[k][n].id => m = n

\* C14: within one entity kind no two records of a store share an id, and the id
\* a create assigns differs from every id an earlier create on that store
\* assigned, also when the record that held the earlier id has been deleted.
C14_IdsUniqueNeverReused ==
    [][/\ IdsAreKeys'
       /\ (IsCreate(last') /\ last'.res.kind = "ok")
            => last'.res.val.id \notin assigned[last'.store]]_vars

ReadBack(k, id, tables) ==
    CASE k = "room" -> read_room_by_id(id, tables.room)
      [] k = "customer" -> read_customer_by_id(id, tables.customer)
      [] k = "booking" -> read_booking_by_id(id, tables.booking)

ReadAll(k, tables) ==
    CASE k = "room" -> read_all_rooms(tables.room)
      [] k = "customer" -> read_all_customers(tables.customer)
      [] k = "booking" -> read_all_bookings(tables.booking)

\* C15: the record create_room, create_customer or create_booking returns has a
\* newly assigned id and the caller's values in its other fields (plus the derived
\* price for a booking); read_by_id of that id returns the same record, and
\* read_all holds one record more than before, among them this one.
C15_CreateThenReadRoundTrip ==
    [][(IsCreate(last') /\ last'.store \in Kinds /\ last'.res.kind = "ok")
        => LET k == last'.store
               record == last'.res.val
               given == last'.data
               before == ReadAll(k, db).res.val
               after == ReadAll(k, db').res.val
           IN  /\ record.id \notin DOMAIN db[k]
               /\ \A f \in DOMAIN given : record[f] = given[f]
               /\ DOMAIN record = DOMAIN given \cup
                        (IF k = "booking" THEN {"id", "price"} ELSE {"id"})
               /\ k = "booking"
                    => record.price = Nights(given) * db.room[given.room_id].price
               /\ ReadBack(k, record.id, db').res = Ok(record)
               /\ Len(after) = Len(before) + 1
               /\ \E n \in DOMAIN after : after[n] = record
               /\ \A m \in DOMAIN before : \E n \in DOMAIN after : after[n] = before[m]]_vars

C15_Witness ==
    /\ last.op = "create_booking"
    /\ last.res.kind = "ok"
    /\ read_booking_by_id(last.res.val.id, db.booking).res = last.res
    /\ Len(read_all_bookings(db.booking).res.val) = 2
    /\ Len(read_all_customers(db.customer).res.val) = 1
    /\ Len(read_all_rooms(db.room).res.val) = 1

IsReadAll(c) ==
    c.op \in {"read_all", "read_all_rooms", "read_all_customers", "read_all_bookings"}

IdsOf(records) == {records[n].id : n \in DOMAIN records}

DeletedFrom(store) == IF store \in Kinds THEN deleted[store] ELSE {}

\* C16: at any point the ids read_all returns are exactly the ids that the
\* store's create calls assigned and that have not been deleted since; read_all
\* is the empty list when nothing was created.
C16_ReadAllIsCreatedNotDeleted ==
    IsReadAll(last)
    => /\ IdsOf(last.res.val) = assigned[last.store] \ DeletedFrom(last.store)
       /\ assigned[last.store] = {} => last.res.val = <<>>

ValidStay(c) ==
    /\ IsCreateBooking(c)
    /\ c.store = "booking"
    /\ c.data.to_date > c.data.from_date

Overlap(a, b) ==
    /\ a.room_id = b.room_id
    /\ a.from_date < b.to_date
    /\ b.from_date < a.to_date

\* C18: create_booking with valid dates for an existing room succeeds whatever
\* bookings are stored, also one of the same room on overlapping dates: it adds
\* its booking and leaves the stored ones as they were.
C18_NoDoubleBookingPrevention ==
    [][(ValidStay(last') /\ last'.data.room_id \in DOMAIN db.room)
        => /\ last'.res.kind = "ok"
           /\ last'.res.val.id \notin DOMAIN db.booking
           /\ DOMAIN db'.booking = DOMAIN db.booking \cup {last'.res.val.id}
           /\ \A i \in DOMAIN db.booking : db'.booking[i] = db.booking[i]]_vars

C18_Witness ==
    /\ ValidStay(last)
    /\ last.res.kind = "ok"
    /\ \E i \in DOMAIN db.booking \ {last.res.val.id} :
            /\ Overlap(db.booking[i], db.booking[last.res.val.id])
            /\ db.booking[i].from_date # last.data.from_date

\* C19: deleting a customer or a room through its table's delete leaves the
\* booking table as it was; bookings that name the deleted record stay stored
\* with every field unchanged.
C19_DeleteDoesNotCascade ==
    [][(last'.op = "delete" /\ last'.store \in {"room", "customer"})
        => db'.booking = db.booking]_vars

C19_Witness ==
    /\ last.op = "delete"
    /\ last.store = "customer"
    /\ last.res.kind = "ok"
    /\ \E i \in DOMAIN db.booking :
            /\ db.booking[i].customer_id = last.id
            /\ db.booking[i].room_id \notin DOMAIN db.room

Unsupported(c) ==
    \/ IsDelete(c) /\ c.store \in {"booking_stub", "customer_stub"}
    \/ c.op = "update" /\ c.store = "stub_interface"

IsUpdate(c) == c.op \in {"update", "update_customer"} /\ c.store \in Kinds

\* C21: update(id, data) and update_customer(id, input) return a record whose id
\* is the id passed, and no update, whatever keys its data holds, changes the id
\* under which a record is stored.
C21_IdImmutable ==
    [][IsUpdate(last')
        => /\ last'.res.kind = "ok" => last'.res.val.id = last'.id
           /\ DOMAIN db'[last'.store] = DOMAIN db[last'.store]]_vars

\* C22: every booking that create_booking returns or stores has price >= 0,
\* whatever integers the stored room was created with.
C22_BookingPriceNonNegative ==
    /\ \A i \in DOMAIN db.booking : db.booking[i].price >= 0
    /\ (IsCreateBooking(last) /\ last.res.kind = "ok") => last.res.val.price >= 0

IsRead(c) == IsReadById(c) \/ IsReadAll(c)

(* The read that c was, made again on the stores as they are now. *)
Reread(c) ==
    CASE c.store = "room_stub" ->
            IF IsReadAll(c) THEN RoomStub_read_all(stub.room).res
            ELSE RoomStub_read_by_id(stub.room, c.id).res
      [] c.store = "booking_stub" ->
            IF IsReadAll(c) THEN BookingStub_read_all(stub.booking).res
            ELSE BookingStub_read_by_id(stub.booking, c.id).res
      [] c.store = "customer_stub" ->
            IF IsReadAll(c) THEN CustomerStub_read_all(stub.customer).res
            ELSE CustomerStub_read_by_id(stub.customer, c.id).res
      [] OTHER ->
            IF IsReadAll(c) THEN ReadAll(c.store, db).res
            ELSE ReadBack(c.store, c.id, db).res

\* C23: read_all_* and read_*_by_id, for an existing or a missing id, leave every
\* table and every stub as it was and consume no id, and the same read made again
\* right after it returns the same result.
C23_ReadsArePure ==
    [][IsRead(last')
        => /\ db' = db
           /\ stub' = stub
           /\ nextId' = nextId
           /\ (Reread(last) = last.res)']_vars

C23_Witness ==
    /\ last.op = "read_booking_by_id"
    /\ last.store = "booking_stub"
    /\ last.id \notin StubRecordIds("booking")
    /\ last.res.kind = "ok"
    /\ DOMAIN db.booking # {}
    /\ DOMAIN db.customer # {}

\* C24: update(id, data) and update_customer(id, input) change no field of any
\* record of the table whose id differs from id, and no record of another table.
C24_UpdateConfinedToTarget ==
    [][IsUpdate(last')
        => \A k \in Kinds :
            IF k = last'.store
            THEN \A j \in DOMAIN db[k] \ {last'.id} :
                    j \in DOMAIN db'[k] /\ db'[k][j] = db[k][j]
            ELSE db'[k] = db[k]]_vars

C24_Witness ==
    /\ last.op = "update"
    /\ last.store = "customer"
    /\ last.res.kind = "ok"
    /\ last.res.val.email_address = "david.new@example.com"
    /\ \E j \in DOMAIN db.customer \ {last.id} :
            db.customer[j].email_address = "david@example.com"
    /\ DOMAIN db.room # {}

(* The store calls one caller's create_booking has made so far, in order. *)
StoreCalls(c) ==
    LET own == SelectSeq(trace, LAMBDA e : e.who = c)
    IN  [i \in 1..Len(own) |-> own[i].call]

Finished(c) == inflight[c].pc = "done"

\* C25: one create_booking call reads the room at most once and creates a booking
\* at most once, in that order; a call that succeeded made exactly one create, a
\* call that failed made none and did not repeat the failed store call, and the
\* bookings stored are one per call that succeeded.
C25_OneReadThenOneCreate ==
    /\ \A c \in Callers :
        /\ StoreCalls(c) \in {<<>>, <<"read_by_id">>, <<"read_by_id", "create">>}
        /\ Finished(c) => StoreCalls(c) = <<"read_by_id", "create">>
        /\ inflight[c].pc = "failed" => StoreCalls(c) = <<"read_by_id">>
    /\ Cardinality(DOMAIN db.booking) = Cardinality({c \in Callers : Finished(c)})

C25_Witness ==
    \E c, d \in Callers :
        /\ inflight[c].pc = "failed"
        /\ inflight[c].res = Raise("NotFound")
        /\ StoreCalls(c) = <<"read_by_id">>
        /\ Finished(d)
        /\ StoreCalls(d) = <<"read_by_id", "create">>

\* C27: create_booking reads the room before it checks the dates: a call whose
\* room read failed has failed with the room store's error whatever its dates
\* are, and a call that failed with InvalidDateError, or got as far as the date
\* check, had its room read answered with a room.
C27_RoomReadBeforeDateCheck ==
    \A c \in Callers :
        /\ inflight[c].pc \in {"check", "create", "done"}
            => /\ inflight[c].room.kind = "ok"
               /\ StoreCalls(c)[1] = "read_by_id"
        /\ inflight[c].pc = "failed"
            => /\ StoreCalls(c) = <<"read_by_id">>
               /\ inflight[c].res = Raise("InvalidDateError") => inflight[c].room.kind = "ok"
               /\ inflight[c].room.kind # "ok" => inflight[c].res = inflight[c].room

C27_Witness ==
    \E c \in Callers :
        /\ inflight[c].pc = "failed"
        /\ inflight[c].data.to_date <= inflight[c].data.from_date
        /\ inflight[c].data.room_id \notin DOMAIN db.room
        /\ inflight[c].res = Raise("NotFound")
        /\ last.op = "create_booking"
        /\ last.res = Raise("NotFound")

\* C29: create_booking calls that interleave store call by store call all
\* complete: a call that has read its room can always write, the bookings of two
\* finished calls have distinct ids, and each stored booking's price is that
\* call's own nights times the room price that call read, also when the room's
\* price was changed between the call's read and its write.
C29_InterleavedCallsKeepPriceRead ==
    \A c \in Callers :
        /\ inflight[c].pc = "create" => ENABLED WriteBooking(c)
        /\ Finished(c)
            => /\ inflight[c].res.kind = "ok"
               /\ inflight[c].res.val.id \in DOMAIN db.booking
               /\ db.booking[inflight[c].res.val.id] = inflight[c].res.val
               /\ inflight[c].res.val.price
                    = Nights(inflight[c].data) * inflight[c].room.val.price
               /\ \A d \in Callers \ {c} :
                    Finished(d) => inflight[d].res.val.id # inflight[c].res.val.id

C29_Witness ==
    \E c, d \in Callers :
        /\ c # d
        /\ Len(trace) = 4
        /\ trace[1] = [who |-> c, call |-> "read_by_id"]
        /\ trace[2] = [who |-> d, call |-> "read_by_id"]
        /\ trace[3] = [who |-> c, call |-> "create"]
        /\ trace[4] = [who |-> d, call |-> "create"]
        /\ inflight[c].data.room_id = inflight[d].data.room_id
        /\ last.op = "create_booking"
        /\ last.res = inflight[d].res
        /\ inflight[d].data.room_id \in DOMAIN db.room
        /\ db.room[inflight[d].data.room_id].price # inflight[d].room.val.price
        /\ Cardinality(DOMAIN db.booking) = 2

(* What the store call an operation makes first answers, on the given tables. *)
StoreAnswer(c, tables) ==
    CASE c.op = "read_room_by_id" -> read_by_id(tables.room, c.id).res
      [] c.op = "read_booking_by_id" -> read_by_id(tables.booking, c.id).res
      [] c.op = "read_customer_by_id" -> read_by_id(tables.customer, c.id).res
      [] c.op = "delete_booking" -> delete(tables.booking, c.id).res
      [] c.op = "create_booking" -> read_by_id(tables.room, c.data.room_id).res
      [] OTHER -> ReturnedNone

\* C26: when the store call of an operations function fails, the function fails
\* with that same error, returns no record and has written nothing; an
\* update_customer that failed has written nothing either.
C26_StoreErrorsPropagate ==
    [][/\ (last'.store \in Kinds /\ StoreAnswer(last', db).kind = "raise")
            => /\ last'.res = StoreAnswer(last', db)
               /\ db' = db
       /\ (last'.op = "update_customer" /\ last'.res.kind = "raise") => db' = db]_vars

C26_Witness ==
    /\ last.op = "delete_booking"
    /\ last.store = "booking"
    /\ last.res = Raise("UnmappedInstanceError")
    /\ \E i \in DOMAIN db.booking : i # last.id

Operations ==
    {"read_all_rooms", "read_room_by_id", "create_room",
     "read_all_bookings", "read_booking_by_id", "create_booking", "delete_booking",
     "read_all_customers", "read_customer_by_id", "create_customer", "update_customer"}

\* C28: create_booking and delete_booking, succeeding or failing, leave the rooms
\* and the customers as they were, and no operations function removes an
\* existing room or changes one of its fields.
C28_RoomsReadOnlyToOperations ==
    [][/\ last'.op \in {"create_booking", "delete_booking"}
            => /\ db'.room = db.room
               /\ db'.customer = db.customer
               /\ stub'.room = stub.room
               /\ stub'.customer = stub.customer
       /\ last'.op \in Operations
            => \A i \in DOMAIN db.room : i \in DOMAIN db'.room /\ db'.room[i] = db.room[i]]_vars

C28_Witness ==
    /\ last.op = "delete_booking"
    /\ last.store = "booking"
    /\ last.res.kind = "ok"
    /\ last.res.val.room_id \in DOMAIN db.room
    /\ last.res.val.customer_id \in DOMAIN db.customer

SameCall(c, d) == c.op = d.op /\ c.store = d.store /\ c.id = d.id /\ c.data = d.data

\* C30: an update that repeats the call before it, which had updated an existing
\* record, leaves every table as that call left it and returns the same record.
C30_UpdateIdempotent ==
    [][(IsUpdate(last') /\ SameCall(last', last) /\ last.res.kind = "ok")
            => /\ db' = db
               /\ last'.res = last.res]_vars

====
